---- MODULE Spec2Model ----
(***************************************************************************)
(* Streaming chat session of the voice-chat frontend.                      *)
(*                                                                         *)
(* State: the React context (Context.jsx) and Main's chatHistory.          *)
(* Operations: the two submission handlers, BottomSection.handleSend       *)
(* (Sidebar.jsx:137-211) and Main.handleQueryClick (part_000:33-99), cut   *)
(* at their await points: the synchronous prefix up to fetch, the          *)
(* resolution of fetch, and each resolution of reader.read().              *)
(* Text is a sequence of code points; bytes are integers 0..255.           *)
(* The handlers are reachable in the render branch of Main where the       *)
(* embedding is complete (part_000:133-164); the model covers that phase.  *)
(***************************************************************************)
EXTENDS Integers, Sequences, FiniteSets, TLC

VARIABLES input, recentPrompt, previousPrompt, showResult, loadings,
          response, chatHistory, subs,
          apiProvider, providerKey, unstructuredKey

\* the configuration set by the provider form (Context.jsx:19-21)
config == <<apiProvider, providerKey, unstructuredKey>>

vars == <<input, recentPrompt, previousPrompt, showResult, loadings,
          response, chatHistory, subs, config>>

\* ---- bounds ----
MaxSubmissions == 2
MaxChunks == 2

\* ---- texts ----
EmptyText == <<>>
Q1 == <<81, 49>>
Blank == <<32>>
Questions == {EmptyText, Blank, Q1}

\* "An error occurred. Please try again."
errorMessage ==
  <<65,110,32,101,114,114,111,114,32,111,99,99,117,114,114,101,100,46,32,
    80,108,101,97,115,101,32,116,114,121,32,97,103,97,105,110,46>>

\* the values reader.read() may deliver: 'A' followed by the lead byte of
\* U+00E9, and the continuation byte of U+00E9
Chunks == { <<65, 195>>, <<169>> }

\* ---- TextDecoder (utf-8, fatal = false), decode(value, {stream: true}) ----
REPLACEMENT == 65533

newTextDecoder == [cp |-> 0, seen |-> 0, needed |-> 0, lower |-> 128, upper |-> 191]

\* a byte met while no sequence is open
decodeLead(b) ==
  IF b <= 127 THEN [d |-> newTextDecoder, out |-> <<b>>]
  ELSE IF b >= 194 /\ b <= 223 THEN
    [d |-> [newTextDecoder EXCEPT !.needed = 1, !.cp = b % 32], out |-> <<>>]
  ELSE IF b >= 224 /\ b <= 239 THEN
    [d |-> [newTextDecoder EXCEPT !.needed = 2, !.cp = b % 16,
              !.lower = IF b = 224 THEN 160 ELSE 128,
              !.upper = IF b = 237 THEN 159 ELSE 191], out |-> <<>>]
  ELSE IF b >= 240 /\ b <= 244 THEN
    [d |-> [newTextDecoder EXCEPT !.needed = 3, !.cp = b % 8,
              !.lower = IF b = 240 THEN 144 ELSE 128,
              !.upper = IF b = 244 THEN 143 ELSE 191], out |-> <<>>]
  ELSE [d |-> newTextDecoder, out |-> <<REPLACEMENT>>]

\* one byte through the decoder: the new decoder state and the code points emitted
decodeByte(d, b) ==
  IF d.needed = 0 THEN decodeLead(b)
  ELSE IF b < d.lower \/ b > d.upper THEN
    \* the open sequence is broken: U+FFFD, and the byte is processed again
    [d |-> decodeLead(b).d, out |-> <<REPLACEMENT>> \o decodeLead(b).out]
  ELSE
    LET cp == d.cp * 64 + (b % 64)
    IN IF d.seen + 1 = d.needed
       THEN [d |-> newTextDecoder, out |-> <<cp>>]
       ELSE [d |-> [d EXCEPT !.cp = cp, !.seen = d.seen + 1, !.lower = 128, !.upper = 191],
             out |-> <<>>]

\* decoder.decode(value) without { stream: true }: the end of the chunk is the
\* end of the input, an incomplete tail becomes U+FFFD and nothing is kept
RECURSIVE decodeNoStream(_, _)
decodeNoStream(d, value) ==
  IF value = <<>>
  THEN [d |-> newTextDecoder, out |-> IF d.needed > 0 THEN <<REPLACEMENT>> ELSE <<>>]
  ELSE LET first == decodeByte(d, Head(value))
           rest == decodeNoStream(first.d, Tail(value))
       IN [d |-> rest.d, out |-> first.out \o rest.out]

\* decoder.decode(value, { stream: true }): the incomplete tail stays in the decoder
RECURSIVE decode(_, _)
decode(d, value) ==
  IF value = <<>> THEN [d |-> d, out |-> <<>>]
  ELSE LET first == decodeByte(d, Head(value))
           rest == decode(first.d, Tail(value))
       IN [d |-> rest.d, out |-> first.out \o rest.out]

\* ---- chatHistory updaters ----
\* only the user turn is appended
AppendUserTurnOnly(prev, question) ==
  prev \o << [type |-> "user", text |-> question] >>

\* setChatHistory((prev) => [...prev, {user}, {bot, loading}])
AppendTurnPair(prev, question) ==
  prev \o << [type |-> "user", text |-> question],
             [type |-> "bot", text |-> EmptyText, loading |-> TRUE] >>

\* prev.map((chat, index) => index === target ? {...chat, text, loading: false} : chat)
\* (index is 0-based as in the source)
updateTurn(prev, target, text) ==
  [k \in 1..Len(prev) |->
     IF k - 1 = target
     THEN [type |-> prev[k].type, text |-> text, loading |-> FALSE]
     ELSE prev[k]]

\* the read loop writes the turn at loaderIndex, the user turn
partialUpdaterOffByOne(prev, loaderIndex, accumulatedResponse) ==
  updateTurn(prev, loaderIndex, accumulatedResponse)

\* the read loop writes the bot turn of the call before
partialUpdaterPrevTurn(prev, loaderIndex, accumulatedResponse) ==
  updateTurn(prev, loaderIndex - 1, accumulatedResponse)

\* the updater of the read loop
partialUpdater(prev, loaderIndex, accumulatedResponse) ==
  updateTurn(prev, loaderIndex + 1, accumulatedResponse)

\* the error message is put after the text shown so far
errorUpdaterAppend(prev, loaderIndex) ==
  updateTurn(prev, loaderIndex + 1, prev[loaderIndex + 2].text \o errorMessage)

\* the updater of the catch block
errorUpdater(prev, loaderIndex) ==
  updateTurn(prev, loaderIndex + 1, errorMessage)

\* the question is put in front
prependPrompt(prev, question) == <<question>> \o prev

\* setPreviousPrompt((prev) => [...prev, question])
appendPrompt(prev, question) == Append(prev, question)

\* ---- the request ----
\* the provider of the request is the one chosen in the provider form
chatRequestFromConfig(question) ==
  [method |-> "POST", url |-> "http://localhost:8000/chat",
   contentType |-> "application/json",
   body |-> [question |-> question,
             provider |-> IF apiProvider = "undefined" THEN "openai" ELSE apiProvider,
             model |-> "gpt-4o-mini"]]

\* fetch("http://localhost:8000/chat", { method, headers, body: JSON.stringify({...}) })
chatRequest(question) ==
  [method |-> "POST", url |-> "http://localhost:8000/chat",
   contentType |-> "application/json",
   body |-> [question |-> question, provider |-> "openai", model |-> "gpt-4o-mini"]]

\* the handler keeps the chatHistory.length of its first render
newCallStaleIndex(entry, question, loaderIndex) ==
  [entry |-> entry, question |-> question, loaderIndex |-> 0,
   request |-> chatRequest(question),
   pc |-> "fetch", ok |-> "unknown",
   accumulatedResponse |-> <<>>,
   decoder |-> [cp |-> 0, seen |-> 0, needed |-> 0, lower |-> 128, upper |-> 191],
   delivered |-> <<>>, reads |-> 0, partials |-> 0,
   completes |-> 0, errors |-> 0, releases |-> 0]

\* ---- one call of a handler (an async function in flight) ----
\* request: the POST the call issued.
\* pc: "fetch" awaiting fetch, "read" awaiting reader.read(), "done" returned.
\* delivered, reads, partials, completes, errors, releases record what the call
\* did: the chunks read, reader.read() calls issued, read-loop updates of the bot
\* turn, passes through the success tail, the catch block and the finally block.
newCall(entry, question, loaderIndex) ==
  [entry |-> entry, question |-> question, loaderIndex |-> loaderIndex,
   request |-> chatRequest(question),
   pc |-> "fetch", ok |-> "unknown",
   accumulatedResponse |-> EmptyText, decoder |-> newTextDecoder,
   delivered |-> <<>>, reads |-> 0, partials |-> 0,
   completes |-> 0, errors |-> 0, releases |-> 0]

\* finally { setLoadings(false) }
finallyBlock(call) == [call EXCEPT !.pc = "done", !.releases = @ + 1]

\* the catch block without the finally block
catchBlockNoFinally(call) == [call EXCEPT !.errors = @ + 1, !.pc = "done"]

\* catch (error) { ... } finally { ... }
catchBlock(call) == finallyBlock([call EXCEPT !.errors = @ + 1])

\* the success tail throws after setPreviousPrompt and falls into catch
successTailThenCatch(call) == catchBlock([call EXCEPT !.completes = @ + 1])

\* the loop has no break on done: the call goes on reading the ended stream
successTailNoBreak(call) == [call EXCEPT !.pc = "read"]

\* after the loop: setPreviousPrompt(...), then finally
successTail(call) == finallyBlock([call EXCEPT !.completes = @ + 1])

\* getReader(), new TextDecoder(), accumulatedResponse = "", first reader.read()
startReading(call) ==
  [call EXCEPT !.pc = "read", !.decoder = newTextDecoder,
               !.accumulatedResponse = EmptyText, !.reads = 1]

\* res.ok is not tested
afterResponseNoOkCheck(call, res) ==
  IF res.body = "null"
  THEN catchBlock([call EXCEPT !.ok = IF res.ok THEN "ok" ELSE "notok"])
  ELSE startReading([call EXCEPT !.ok = IF res.ok THEN "ok" ELSE "notok"])

\* the code after await fetch(...) resolved with res, up to the next await:
\* if (!res.ok) throw ...; res.body.getReader() throws a TypeError on a null body
afterResponse(call, res) ==
  IF ~res.ok THEN catchBlock([call EXCEPT !.ok = "notok"])
  ELSE IF res.body = "null" THEN catchBlock([call EXCEPT !.ok = "ok"])
  ELSE startReading([call EXCEPT !.ok = "ok"])

\* the chunk replaces the accumulated text
loopBodyLastChunk(call, value) ==
  LET r == decode(call.decoder, value)
  IN [call EXCEPT !.decoder = r.d,
                  !.accumulatedResponse = r.out,
                  !.delivered = Append(@, value),
                  !.partials = @ + 1,
                  !.reads = @ + 1]

\* a new TextDecoder for every chunk
loopBodyFreshDecoder(call, value) ==
  LET r == decode(newTextDecoder, value)
  IN [call EXCEPT !.decoder = r.d,
                  !.accumulatedResponse = @ \o r.out,
                  !.delivered = Append(@, value),
                  !.partials = @ + 1,
                  !.reads = @ + 1]

\* one pass of the loop body with a chunk, up to the next reader.read()
loopBody(call, value) ==
  LET r == decode(call.decoder, value)
  IN [call EXCEPT !.decoder = r.d,
                  !.accumulatedResponse = @ \o r.out,
                  !.delivered = Append(@, value),
                  !.partials = @ + 1,
                  !.reads = @ + 1]

\* what fetch may resolve with
Responses == { [ok |-> TRUE, body |-> "stream"],
               [ok |-> TRUE, body |-> "null"],
               [ok |-> FALSE, body |-> "stream"] }

\* chunks read so far by all calls
RECURSIVE TotalDelivered(_)
TotalDelivered(calls) ==
  IF calls = <<>> THEN 0
  ELSE Len(Head(calls).delivered) + TotalDelivered(Tail(calls))

TypeOK ==
  /\ input \in Questions
  /\ recentPrompt \in Questions
  /\ showResult \in BOOLEAN
  /\ loadings \in BOOLEAN
  /\ Len(subs) <= MaxSubmissions
  /\ Len(chatHistory) = 2 * Len(subs)

Init ==
  /\ input = EmptyText
  /\ recentPrompt = EmptyText
  /\ previousPrompt = <<>>
  /\ showResult = FALSE
  /\ loadings = FALSE
  /\ response = EmptyText
  /\ chatHistory = <<>>
  /\ subs = <<>>
  /\ apiProvider = "undefined"
  /\ providerKey = "undefined"
  /\ unstructuredKey = "undefined"

\* onChange={(event) => setInput(event.target.value)}
setInput(v) ==
  /\ input' = v
  /\ UNCHANGED <<recentPrompt, previousPrompt, showResult, loadings, response,
                 chatHistory, subs, config>>

\* what the provider form may hold when it is submitted
Forms ==
  { [provider |-> "OpenAI", providerKey |-> "sk-1", unstructuredKey |-> "uk-1"],
    [provider |-> "Gemini", providerKey |-> "", unstructuredKey |-> ""] }

\* HomePageContainer.handleSubmit
handleSubmit(form) ==
  /\ apiProvider' = form.provider
  /\ providerKey' = form.providerKey
  /\ unstructuredKey' = form.unstructuredKey
  /\ UNCHANGED <<input, recentPrompt, previousPrompt, showResult, loadings,
                 response, chatHistory, subs>>

\* BottomSection.handleSend, up to the await of fetch
handleSend ==
  IF input = EmptyText
  THEN UNCHANGED vars
  ELSE /\ Len(subs) < MaxSubmissions
       /\ showResult' = TRUE
       /\ loadings' = TRUE
       /\ recentPrompt' = input
       /\ chatHistory' = AppendTurnPair(chatHistory, input)
       /\ input' = EmptyText
       /\ subs' = Append(subs, newCall("handleSend", input, Len(chatHistory)))
       /\ UNCHANGED <<previousPrompt, response, config>>

\* Main.handleQueryClick, up to the await of fetch; the query cards are
\* rendered only while showResult is false (part_000:135-136)
handleQueryClick(query) ==
  /\ ~showResult
  /\ Len(subs) < MaxSubmissions
  /\ showResult' = TRUE
  /\ loadings' = TRUE
  /\ recentPrompt' = query
  /\ chatHistory' = AppendTurnPair(chatHistory, query)
  /\ subs' = Append(subs, newCall("handleQueryClick", query, Len(chatHistory)))
  /\ UNCHANGED <<input, previousPrompt, response, config>>

\* call i runs from one await to the next (or returns), becoming `next`; the
\* state updates are those of the blocks it passed through: the loop body
\* (partials), the success tail (completes), catch (errors), finally (releases)
resume(i, next) ==
  LET call == subs[i]
      looped == next.partials > call.partials
      completed == next.completes > call.completes
      caught == next.errors > call.errors
      released == next.releases > call.releases
      afterLoop == IF looped
                   THEN partialUpdater(chatHistory, call.loaderIndex, next.accumulatedResponse)
                   ELSE chatHistory
  IN /\ subs' = [subs EXCEPT ![i] = next]
     /\ chatHistory' = IF caught THEN errorUpdater(afterLoop, call.loaderIndex) ELSE afterLoop
     /\ previousPrompt' = IF completed THEN appendPrompt(previousPrompt, call.question)
                          ELSE previousPrompt
     /\ response' = IF call.entry # "handleSend" THEN response
                    ELSE IF caught THEN errorMessage
                    ELSE IF completed THEN next.accumulatedResponse
                    ELSE response
     /\ loadings' = IF released THEN FALSE ELSE loadings
     /\ UNCHANGED <<input, recentPrompt, showResult, config>>

\* await fetch(...) rejects (no connection)
fetchRejected(i) ==
  /\ subs[i].pc = "fetch"
  /\ resume(i, catchBlock(subs[i]))

\* await fetch(...) resolves with res
fetchResolved(i, res) ==
  /\ subs[i].pc = "fetch"
  /\ resume(i, afterResponse(subs[i], res))

\* await reader.read() resolves with { done: false, value }
readChunk(i, value) ==
  /\ subs[i].pc = "read"
  /\ TotalDelivered(subs) < MaxChunks
  /\ resume(i, loopBody(subs[i], value))

\* await reader.read() resolves with { done: true }
readDone(i) ==
  /\ subs[i].pc = "read"
  /\ resume(i, successTail(subs[i]))

\* await reader.read() rejects (the connection breaks mid-stream)
readError(i) ==
  /\ subs[i].pc = "read"
  /\ resume(i, catchBlock(subs[i]))

Next ==
  \/ \E v \in Questions : setInput(v)
  \/ handleSend
  \/ \E query \in Questions \ {EmptyText} : handleQueryClick(query)
  \/ \E i \in 1..Len(subs) : fetchRejected(i)
  \/ \E i \in 1..Len(subs), res \in Responses : fetchResolved(i, res)
  \/ \E i \in 1..Len(subs), value \in Chunks : readChunk(i, value)
  \/ \E i \in 1..Len(subs) : readDone(i)
  \/ \E i \in 1..Len(subs) : readError(i)

Spec == Init /\ [][Next]_vars

\* ---- helpers for the properties ----
Calls == 1..Len(subs)
InFlight == {i \in Calls : subs[i].pc # "done"}
\* the bot turn call i appended (chatHistory is 1-based here)
BotTurn(i) == chatHistory[subs[i].loaderIndex + 2]
\* a handler entry step: a new call starts
Submitted == Len(subs') > Len(subs)

\* C1: at most one submission is in flight (accepted and not yet terminated)
\* at any time.
C1_AtMostOneInFlight == Cardinality(InFlight) <= 1

\* C2: a submission made while loadings is true leaves chatHistory as it was
\* (same length, same contents).
C2_PendingSubmitNoOp == [][(loadings /\ Submitted) => chatHistory' = chatHistory]_vars

\* the turn pair of a submission of `question`
TurnPair(question) ==
  << [type |-> "user", text |-> question],
     [type |-> "bot", text |-> EmptyText, loading |-> TRUE] >>

\* every user turn is immediately followed by a bot turn
PairStructured ==
  /\ Len(chatHistory) % 2 = 0
  /\ \A k \in 1..Len(chatHistory) :
       chatHistory[k].type = "user" =>
         k < Len(chatHistory) /\ chatHistory[k + 1].type = "bot"

\* C3: every accepted submission extends chatHistory in one step by exactly
\* two turns, the user turn with the question and then a bot turn with empty
\* text and loading = true; the length changes in no other step, and no
\* reachable state has a user turn without its bot turn.
C3_TurnPairAtomic ==
  /\ []PairStructured
  /\ [][ /\ Submitted =>
              chatHistory' = chatHistory \o TurnPair(subs'[Len(subs')].question)
         /\ Len(chatHistory') # Len(chatHistory) => Submitted ]_vars

C3_Witness ==
  /\ Len(chatHistory) = 4
  /\ chatHistory[3] = [type |-> "user", text |-> Q1]
  /\ chatHistory[4] = [type |-> "bot", text |-> EmptyText, loading |-> TRUE]

\* the chunks decoded one after the other by one streaming decoder, concatenated
RECURSIVE decodeAll(_, _)
decodeAll(d, chunks) ==
  IF chunks = <<>> THEN <<>>
  ELSE LET r == decode(d, Head(chunks))
       IN r.out \o decodeAll(r.d, Tail(chunks))

\* call i got a 2xx response and its stream ended
Succeeded(i) == subs[i].pc = "done" /\ subs[i].ok = "ok" /\ subs[i].errors = 0
\* call i ended in the catch block
Failed(i) == subs[i].pc = "done" /\ subs[i].errors > 0

\* C4: once a 2xx stream has delivered chunks c1..cn (n >= 0) and ended, the
\* text of the call's bot turn is the concatenation of the decoded chunks in
\* arrival order.
C4_FinalTextIsConcat ==
  \A i \in Calls :
    Succeeded(i) => BotTurn(i).text = decodeAll(newTextDecoder, subs[i].delivered)

C4_Witness ==
  \E i \in Calls :
    /\ Succeeded(i)
    /\ subs[i].delivered = << <<65, 195>>, <<169>> >>
    /\ BotTurn(i).text = <<65, 233>>

\* C5: previousPrompt changes only in the step where a call reaches end of
\* stream, and then by appending that call's question at the end.
C5_PromptsAppendOnSuccess ==
  [][ LET ended == {i \in Calls : /\ subs[i].pc = "read"
                                  /\ subs'[i].pc = "done"
                                  /\ subs'[i].errors = subs[i].errors}
      IN IF ended = {}
         THEN previousPrompt' = previousPrompt
         ELSE \E i \in ended :
                /\ ended = {i}
                /\ previousPrompt' = Append(previousPrompt, subs[i].question) ]_vars

C5_Witness ==
  /\ previousPrompt = <<Q1, Blank>>
  /\ \E i, j \in Calls :
       /\ i < j /\ Succeeded(i) /\ Succeeded(j)
       /\ subs[i].question = Blank /\ subs[j].question = Q1

C7_PendingExact == loadings <=> InFlight # {}

\* C8: setLoadings(false) runs exactly once per accepted submission, in the
\* step in which the submission terminates, on every exit path.
C8_ReleasedOncePerCall ==
  /\ [](\A i \in Calls : subs[i].releases = IF subs[i].pc = "done" THEN 1 ELSE 0)
  /\ [][ \A i \in Calls :
           (subs[i].pc # "done" /\ subs'[i].pc = "done") => ~loadings' ]_vars

C8_Witness ==
  \E i, j \in Calls :
    /\ Succeeded(i) /\ subs[i].releases = 1
    /\ Failed(j) /\ subs[j].ok = "ok" /\ subs[j].reads = 0 /\ subs[j].releases = 1
    /\ ~loadings

\* C9: a call has at most one terminal outcome, and exactly one once it has
\* returned; after the terminal outcome the call and its bot turn are never
\* written again, so every partial update precedes it.
C9_OneTerminalOutcome ==
  /\ [](\A i \in Calls :
          /\ subs[i].completes + subs[i].errors <= 1
          /\ subs[i].pc = "done" <=> subs[i].completes + subs[i].errors = 1)
  /\ [][ \A i \in Calls :
           /\ subs[i].pc = "done" =>
                /\ subs'[i] = subs[i]
                /\ chatHistory'[subs[i].loaderIndex + 2] = BotTurn(i)
           /\ subs'[i].partials > subs[i].partials => subs'[i].pc = "read" ]_vars

C9_Witness ==
  \E i, j \in Calls :
    /\ i < j
    /\ subs[i].pc = "done" /\ subs[i].completes = 1 /\ subs[i].partials = 1
    /\ subs[j].pc = "read" /\ subs[j].partials = 1

C11_BlankRejected ==
  [][ (Submitted /\ subs'[Len(subs')].question \in {EmptyText, Blank}) =>
        UNCHANGED <<loadings, chatHistory, previousPrompt>> ]_vars

\* the bot turns that are Complete: not loading and not the error message
CompleteTurns ==
  {k \in 1..Len(chatHistory) :
     /\ chatHistory[k].type = "bot"
     /\ ~chatHistory[k].loading
     /\ chatHistory[k].text # errorMessage}

\* C12: previousPrompt is never longer than the number of Complete bot turns.
C12_PromptsAtMostComplete == Len(previousPrompt) <= Cardinality(CompleteTurns)

\* C13: chatHistory is append-only and pair-structured: user turns at the odd
\* positions, bot turns at the even ones, an even length; no step removes a
\* turn, changes a turn's role or changes a user turn.
C13_AppendOnlyPairs ==
  /\ [](/\ Len(chatHistory) % 2 = 0
        /\ \A k \in 1..Len(chatHistory) :
             chatHistory[k].type = IF k % 2 = 1 THEN "user" ELSE "bot")
  /\ [][ /\ Len(chatHistory') >= Len(chatHistory)
         /\ \A k \in 1..Len(chatHistory) :
              /\ chatHistory'[k].type = chatHistory[k].type
              /\ chatHistory[k].type = "user" => chatHistory'[k] = chatHistory[k] ]_vars

C13_Witness ==
  /\ Len(chatHistory) = 4
  /\ chatHistory[1] = [type |-> "user", text |-> Blank]
  /\ chatHistory[2].text = errorMessage
  /\ chatHistory[3] = [type |-> "user", text |-> Q1]
  /\ chatHistory[4].text = <<65>>

\* C16: a call whose 2xx stream has ended leaves its bot turn with
\* loading = false, for every number of chunks n >= 0.
C16_SuccessFinalized == \A i \in Calls : Succeeded(i) => ~BotTurn(i).loading

\* C17: once a call has returned, the bot turn it appended (the 2i-th turn for
\* the i-th call) is never written again, and the call's outcome stays what it
\* was: a Failed turn never becomes Complete, a Complete one never Failed.
C17_TerminalTurnsStable ==
  [][ \A i \in Calls :
        subs[i].pc = "done" =>
          /\ chatHistory'[2 * i] = chatHistory[2 * i]
          /\ subs'[i].pc = "done"
          /\ Failed(i) => (subs'[i].errors > 0 /\ subs'[i].completes = 0)
          /\ Succeeded(i) => (subs'[i].errors = 0 /\ subs'[i].completes > 0) ]_vars

C17_Witness ==
  /\ Len(subs) = 2
  /\ Failed(1) /\ chatHistory[2].text = errorMessage
  /\ Succeeded(2) /\ subs[2].partials = 2

\* C18: the index a call computed at submit time is the position of the bot
\* turn it appended, right after the user turn with its question, and a step
\* of a call changes no turn but that one.
C18_SingleWriter ==
  /\ [](\A i \in Calls :
          /\ subs[i].loaderIndex + 2 = 2 * i
          /\ chatHistory[2 * i - 1] = [type |-> "user", text |-> subs[i].question]
          /\ BotTurn(i).type = "bot")
  /\ [][ \A i \in Calls :
           subs'[i] # subs[i] =>
             \A k \in 1..Len(chatHistory) :
               k # subs[i].loaderIndex + 2 => chatHistory'[k] = chatHistory[k] ]_vars

C18_Witness ==
  /\ Len(subs) = 2
  /\ subs[1].pc = "read" /\ subs[1].partials = 1
  /\ subs[2].pc = "read" /\ subs[2].partials = 1
  /\ chatHistory[2].text = <<65>>
  /\ chatHistory[4].text = <<REPLACEMENT>>

IsPrefix(s, t) == Len(s) <= Len(t) /\ SubSeq(t, 1, Len(s)) = s

\* C19: while a call streams, its bot turn shows the concatenation of the
\* chunks decoded so far, and each chunk extends the text shown before.
C19_TextNeverRegresses ==
  /\ [](\A i \in Calls :
          subs[i].pc = "read" =>
            BotTurn(i).text = decodeAll(newTextDecoder, subs[i].delivered))
  /\ [][ \A i \in Calls :
           (subs[i].pc = "read" /\ subs'[i].pc = "read") =>
             IsPrefix(BotTurn(i).text, chatHistory'[subs[i].loaderIndex + 2].text) ]_vars

C19_Witness ==
  \E i \in Calls :
    /\ subs[i].pc = "read"
    /\ subs[i].delivered = << <<65, 195>>, <<169>> >>
    /\ BotTurn(i).text = <<65, 233>>

\* ---- liveness ----
\* the transport of call i does what it does when nothing fails: fetch
\* resolves with a 2xx response that has a body, and the stream reaches its end
OkStream == [ok |-> TRUE, body |-> "stream"]
transportEnds(i) ==
  /\ i \in Calls
  /\ (fetchResolved(i, OkStream) \/ readDone(i))

\* the k-th chunk of the response body when every response carries the same
\* bytes: 'A' and U+00E9 over and over, cut inside the character
streamChunk(k) == IF k % 2 = 1 THEN <<65, 195>> ELSE <<169>>

\* await reader.read() resolves with the next chunk of that body
readNextChunk(i) == readChunk(i, streamChunk(Len(subs[i].delivered) + 1))

\* Next with the content of the questions and of the chunks fixed; which handler
\* is called and when, when a chunk arrives, when the stream ends and where it
\* fails stay free
LiveNext ==
  \/ \E v \in {EmptyText, Q1} : setInput(v)
  \/ handleSend
  \/ handleQueryClick(Q1)
  \/ \E i \in 1..Len(subs) : fetchRejected(i)
  \/ \E i \in 1..Len(subs), res \in Responses : fetchResolved(i, res)
  \/ \E i \in 1..Len(subs) : readNextChunk(i)
  \/ \E i \in 1..Len(subs) : readDone(i)
  \/ \E i \in 1..Len(subs) : readError(i)

\* every transport eventually ends, unless it fails first
FairSpec ==
  /\ Init
  /\ [][LiveNext]_vars
  /\ \A i \in 1..MaxSubmissions : WF_vars(transportEnds(i))

\* handleSend accepts the input: a new call and its turn pair
AcceptedSend ==
  /\ handleSend
  /\ Len(subs') = Len(subs) + 1
  /\ chatHistory' = chatHistory \o TurnPair(input)

ConfigNext ==
  \/ \E form \in Forms : handleSubmit(form)
  \/ \E v \in Questions : setInput(v)
  \/ handleSend
  \/ \E query \in Questions \ {EmptyText} : handleQueryClick(query)
  \/ \E i \in 1..Len(subs) : fetchRejected(i)
  \/ \E i \in 1..Len(subs), res \in Responses : fetchResolved(i, res)
  \/ \E i \in 1..Len(subs) : readNextChunk(i)
  \/ \E i \in 1..Len(subs) : readDone(i)
  \/ \E i \in 1..Len(subs) : readError(i)

ConfigSpec == Init /\ [][ConfigNext]_vars

\* C15: the request of every call is POST /chat with the JSON body
\* {question, provider: "openai", model: "gpt-4o-mini"}, question being the
\* submitted text: it is a function of the question alone, whatever the
\* provider form has set.
C15_RequestShapeFixed ==
  \A i \in Calls :
    subs[i].request =
      [method |-> "POST", url |-> "http://localhost:8000/chat",
       contentType |-> "application/json",
       body |-> [question |-> chatHistory[2 * i - 1].text,
                 provider |-> "openai", model |-> "gpt-4o-mini"]]

C15_Witness ==
  /\ apiProvider = "Gemini" /\ providerKey = "" /\ unstructuredKey = ""
  /\ Len(subs) = 2
  /\ subs[1].request.body.question = Blank
  /\ subs[2].request.body = [question |-> Q1, provider |-> "openai", model |-> "gpt-4o-mini"]

\* ---- one response, any bytes, cut anywhere ----
\* 'A', the two bytes of U+00E9 and the three bytes of U+20AC
StreamBytes == {65, 195, 169, 226, 130, 172}

\* the values reader.read() may deliver: one or two of these bytes
SplitChunks ==
  {<<a>> : a \in StreamBytes} \cup {<<a, b>> : a \in StreamBytes, b \in StreamBytes}

\* one submission by either handler, a 2xx response with a body, and a stream
\* of any of these chunks that then ends
DecodeNext ==
  \/ setInput(Q1)
  \/ (subs = <<>> /\ handleSend)
  \/ (subs = <<>> /\ handleQueryClick(Q1))
  \/ \E i \in 1..Len(subs) : fetchResolved(i, OkStream)
  \/ \E i \in 1..Len(subs), value \in SplitChunks : readChunk(i, value)
  \/ \E i \in 1..Len(subs) : readDone(i)

DecodeSpec == Init /\ [][DecodeNext]_vars

\* the bytes of the chunks, one after the other
RECURSIVE Flatten(_)
Flatten(chunks) ==
  IF chunks = <<>> THEN <<>> ELSE Head(chunks) \o Flatten(Tail(chunks))

\* UTF-8 as defined for characters of one to three bytes: whether a byte
\* sequence is well formed, and the code points it encodes
RECURSIVE WellFormedUTF8(_)
WellFormedUTF8(b) ==
  \/ b = <<>>
  \/ /\ Len(b) >= 1 /\ b[1] <= 127
     /\ WellFormedUTF8(Tail(b))
  \/ /\ Len(b) >= 2 /\ b[1] \in 194..223 /\ b[2] \in 128..191
     /\ WellFormedUTF8(SubSeq(b, 3, Len(b)))
  \/ /\ Len(b) >= 3 /\ b[1] \in 224..239
     /\ b[2] \in (IF b[1] = 224 THEN 160..191 ELSE IF b[1] = 237 THEN 128..159 ELSE 128..191)
     /\ b[3] \in 128..191
     /\ WellFormedUTF8(SubSeq(b, 4, Len(b)))

RECURSIVE utf8Text(_)
utf8Text(b) ==
  IF b = <<>> THEN <<>>
  ELSE IF b[1] <= 127 THEN <<b[1]>> \o utf8Text(Tail(b))
  ELSE IF b[1] <= 223
    THEN <<(b[1] - 192) * 64 + (b[2] - 128)>> \o utf8Text(SubSeq(b, 3, Len(b)))
  ELSE <<(b[1] - 224) * 4096 + (b[2] - 128) * 64 + (b[3] - 128)>>
         \o utf8Text(SubSeq(b, 4, Len(b)))

\* C20: whenever the bytes read so far are well-formed UTF-8 as a whole, the
\* accumulated text, and the text of the bot turn once a chunk was read, is the
\* text those bytes encode, however they were cut into chunks, and the decoder
\* holds nothing back.
C20_ChunkBoundariesInvisible ==
  \A i \in Calls :
    WellFormedUTF8(Flatten(subs[i].delivered)) =>
      /\ subs[i].accumulatedResponse = utf8Text(Flatten(subs[i].delivered))
      /\ subs[i].delivered # <<>> =>
           BotTurn(i).text = utf8Text(Flatten(subs[i].delivered))
      /\ subs[i].decoder.needed = 0

C20_Witness ==
  \E i \in Calls :
    /\ Succeeded(i)
    /\ subs[i].delivered = << <<65, 226>>, <<130, 172>> >>
    /\ BotTurn(i).text = <<65, 8364>>

\* C21: when a call has succeeded while its decoder still holds the bytes of an
\* incomplete character, the text of its bot turn ends with the replacement
\* character: it is the text decoded from the chunks read, followed by one
\* U+FFFD for the bytes held back.
C21_ResidualFlushed ==
  \A i \in Calls :
    (Succeeded(i) /\ subs[i].decoder.needed > 0) =>
      BotTurn(i).text =
        decodeAll(newTextDecoder, subs[i].delivered) \o <<REPLACEMENT>>

\* ---- the two entry points side by side ----
\* Main.handleQueryClick as a function on a session: the session that a click
\* on a query card would produce, block by block, for a given transport
\* behaviour. `seen` counts the transport events consumed.

\* the session after construction, as handleQueryClick finds it
querySession ==
  [chatHistory |-> <<>>, previousPrompt |-> <<>>, loadings |-> FALSE,
   showResult |-> FALSE, recentPrompt |-> EmptyText,
   query |-> EmptyText, loaderIndex |-> 0, pc |-> "idle",
   accumulatedResponse |-> EmptyText, decoder |-> newTextDecoder]

\* prev.map((chat, index) => index === loaderIndex + 1
\*            ? { ...chat, text, loading: false } : chat)
queryMapTurn(prev, loaderIndex, text) ==
  [k \in 1..Len(prev) |->
     IF k - 1 = loaderIndex + 1
     THEN [type |-> prev[k].type, text |-> text, loading |-> FALSE]
     ELSE prev[k]]

\* handleQueryClick(query) up to the await of fetch
queryClickPrefix(s, query) ==
  [s EXCEPT !.showResult = TRUE,
            !.loadings = TRUE,
            !.recentPrompt = query,
            !.query = query,
            !.loaderIndex = Len(s.chatHistory),
            !.chatHistory = @ \o << [type |-> "user", text |-> query],
                                    [type |-> "bot", text |-> EmptyText, loading |-> TRUE] >>,
            !.pc = "fetch"]

\* finally { setLoadings(false) }
queryClickFinally(s) == [s EXCEPT !.loadings = FALSE, !.pc = "done"]

\* catch (error) { setChatHistory(... errorMessage ...) } finally { ... }
queryClickCatch(s) ==
  queryClickFinally(
    [s EXCEPT !.chatHistory = queryMapTurn(@, s.loaderIndex, errorMessage)])

\* the code after await fetch(...) resolved with res
queryClickResponse(s, res) ==
  IF ~res.ok THEN queryClickCatch(s)
  ELSE IF res.body = "null" THEN queryClickCatch(s)
  ELSE [s EXCEPT !.pc = "read", !.decoder = newTextDecoder,
                 !.accumulatedResponse = EmptyText]

\* one pass of the loop body with a chunk
queryClickChunk(s, value) ==
  LET r == decode(s.decoder, value)
      text == s.accumulatedResponse \o r.out
  IN [s EXCEPT !.decoder = r.d,
               !.accumulatedResponse = text,
               !.chatHistory = queryMapTurn(@, s.loaderIndex, text)]

\* the success tail does not record the prompt
queryClickSuccessNoPrompt(s) == queryClickFinally(s)

\* if (done) break; setPreviousPrompt((prev) => [...prev, query]); finally
queryClickSuccess(s) ==
  queryClickFinally([s EXCEPT !.previousPrompt = Append(@, s.query)])

\* the transport behaviour a call has met so far, read off its record: the
\* question submitted, how fetch settled, the chunks read, how the stream ended
callEvents(call) ==
  << [kind |-> "submit", question |-> call.question] >>
  \o (IF call.pc = "fetch" THEN <<>>
      ELSE IF call.ok = "unknown" THEN << [kind |-> "fetchRejected"] >>
      ELSE IF call.ok = "notok"
        THEN << [kind |-> "response", res |-> [ok |-> FALSE, body |-> "stream"]] >>
      ELSE IF call.reads = 0
        THEN << [kind |-> "response", res |-> [ok |-> TRUE, body |-> "null"]] >>
      ELSE << [kind |-> "response", res |-> [ok |-> TRUE, body |-> "stream"]] >>)
  \o [k \in 1..Len(call.delivered) |-> [kind |-> "chunk", value |-> call.delivered[k]]]
  \o (IF call.pc = "done" /\ call.reads > 0
      THEN IF call.errors > 0 THEN << [kind |-> "readError"] >>
           ELSE << [kind |-> "done"] >>
      ELSE <<>>)

\* handleQueryClick resumed by one transport event
queryClickStep(s, e) ==
  CASE e.kind = "submit" -> queryClickPrefix(s, e.question)
    [] e.kind = "fetchRejected" -> queryClickCatch(s)
    [] e.kind = "response" -> queryClickResponse(s, e.res)
    [] e.kind = "chunk" -> queryClickChunk(s, e.value)
    [] e.kind = "done" -> queryClickSuccess(s)
    [] e.kind = "readError" -> queryClickCatch(s)

\* handleQueryClick run from the fresh session through the events
RECURSIVE queryClickRun(_, _)
queryClickRun(s, events) ==
  IF events = <<>> THEN s
  ELSE queryClickRun(queryClickStep(s, Head(events)), Tail(events))

\* C22: at every point of a handleSend call made in the fresh session,
\* chatHistory, previousPrompt and loadings are what handleQueryClick produces
\* from the same fresh session for the same question and the same transport
\* behaviour so far (how fetch settled, the chunks read, how the stream ended);
\* holding at every point, this makes the two sequences of states equal.
C22_EntryPointsEquivalent ==
  (Len(subs) = 1 /\ subs[1].entry = "handleSend") =>
    LET twin == queryClickRun(querySession, callEvents(subs[1]))
    IN /\ chatHistory = twin.chatHistory
       /\ previousPrompt = twin.previousPrompt
       /\ loadings = twin.loadings

C22_Witness ==
  /\ Len(subs) = 1
  /\ subs[1].entry = "handleSend"
  /\ subs[1].question = Q1
  /\ Succeeded(1)
  /\ subs[1].delivered = << <<65, 195>>, <<169>> >>
  /\ queryClickRun(querySession, callEvents(subs[1])).chatHistory
       = << [type |-> "user", text |-> Q1],
            [type |-> "bot", text |-> <<65, 233>>, loading |-> FALSE] >>
  /\ previousPrompt = <<Q1>>

====
